---- MODULE Spec2Model ----
(***************************************************************************)
(* A model of src/main.rs of the `tree` utility: main() resolves the root  *)
(* directory and print_subtree() walks it recursively, printing one line   *)
(* per retained entry.                                                     *)
(*                                                                         *)
(* Strings (file names, glyphs, printed lines) are sequences of code       *)
(* points; a path is the sequence of its components below "/".  The        *)
(* recursion of print_subtree is an explicit stack of frames.  The file    *)
(* system is the environment: the content of a directory is drawn when     *)
(* read_dir first reads it and is recorded in fs.                          *)
(***************************************************************************)
EXTENDS Integers, Sequences, FiniteSets, TLC

VARIABLES
    args,        \* the parsed command line: path, files, ascii
    env,         \* outcome of the root-level system calls
    pc,          \* position of main()
    path,        \* main's `path` (raw, then canonical)
    out,         \* standard output: the printed lines, in order
    stderr,      \* error stream: the reported messages
    exit_status, \* -1 while running, then the process's exit status
    stack,       \* the active print_subtree calls, innermost last
    fs,          \* the directories read so far and what they contained
    printed,     \* history: the path of the entry each line of out is for
    reads        \* history: the paths read_dir was called on and the
                 \* directories they named, in order

vars == <<args, env, pc, path, out, stderr, exit_status, stack, fs, printed, reads>>

\* ------------------------------------------------------------------ bounds
\* The most entries the whole tree below the root holds.
MaxNodes == 3

\* ----------------------------------------------------------------- strings
\* The file names the tree may hold: "a", "x", "z".
Names == {<<97>>, <<120>>, <<122>>}

\* The path argument: none (the empty string stands for its absence) or "R".
ArgPaths == {<< >>, <<82>>}

\* The command lines run: `tree -a [-f]` in the working directory "/" and
\* `tree [-f] R`.
CommandLines ==
    { cl \in [path : ArgPaths, files : BOOLEAN, ascii : BOOLEAN] :
        cl.ascii = (cl.path = << >>) }

Sep == <<47>>

\* The two glyph sets of main(): corner, branch, blank, vertical.
AsciiFormat == << <<92, 45, 45, 45>>, <<43, 45, 45, 45>>,
                  <<32, 32, 32, 32>>, <<124, 32, 32, 32>> >>

UnicodeFormat == << <<9492, 9472, 9472, 9472>>, <<9500, 9472, 9472, 9472>>,
                    <<32, 32, 32, 32>>, <<9474, 32, 32, 32>> >>

FormatStr(ascii) == IF ascii THEN AsciiFormat ELSE UnicodeFormat

\* Ord for byte strings (OsStr): lexicographic, a proper prefix is smaller.
RECURSIVE BytesLess(_, _)
BytesLess(s, t) ==
    IF t = << >> THEN FALSE
    ELSE IF s = << >> THEN TRUE
    ELSE IF Head(s) # Head(t) THEN Head(s) < Head(t)
    ELSE BytesLess(Tail(s), Tail(t))

\* Ord for Path: lexicographic over the components.
RECURSIVE PathLess(_, _)
PathLess(p, q) ==
    IF q = << >> THEN FALSE
    ELSE IF p = << >> THEN TRUE
    ELSE IF Head(p) # Head(q) THEN BytesLess(Head(p), Head(q))
    ELSE PathLess(Tail(p), Tail(q))

\* Path::to_string_lossy of an absolute path.
RECURSIVE PathString(_)
PathString(p) ==
    IF p = << >> THEN Sep
    ELSE IF Len(p) = 1 THEN Sep \o p[1]
    ELSE PathString(SubSeq(p, 1, Len(p) - 1)) \o Sep \o p[Len(p)]

\* "get filename, fallback to full path"
DisplayName(p) == IF p = << >> THEN PathString(p) ELSE p[Len(p)]

Parent(p) == SubSeq(p, 1, Len(p) - 1)

\* ------------------------------------------------------------- file system
\* What DirEntry::metadata (which does not follow links) reports of an entry.
NodeKinds == { [md |-> m] : m \in {"dir", "file", "symlink", "other", "err"} }

\* Where a symbolic link points, which the program never asks: a link named
\* "a" points to the directory holding it (an ancestor of the link), links
\* named "x" and "z" point to the siblings of these names, so to each other
\* when both are links.
LinkTarget(p) ==
    IF p[Len(p)] = <<97>> THEN SubSeq(p, 1, Len(p) - 1)
    ELSE IF p[Len(p)] = <<120>> THEN Append(SubSeq(p, 1, Len(p) - 1), <<122>>)
    ELSE Append(SubSeq(p, 1, Len(p) - 1), <<120>>)

NodesKnown ==
    LET RECURSIVE Sum(_)
        Sum(D) == IF D = {} THEN 0
                  ELSE LET d == CHOOSE x \in D : TRUE
                       IN  Cardinality(DOMAIN fs[d].ents) + Sum(D \ {d})
    IN  Sum(DOMAIN fs)

\* The directory records read_dir may find at a path not read before.
UnreadableDir == [ok |-> FALSE, ents |-> << >>]

Listings(budget) ==
    UNION { [S -> NodeKinds] : S \in {T \in SUBSET Names : Cardinality(T) <= budget} }

\* The node a path names, as its parent's listing has it.
IsKnown(p) ==
    /\ p # << >>
    /\ Parent(p) \in DOMAIN fs
    /\ fs[Parent(p)].ok
    /\ p[Len(p)] \in DOMAIN fs[Parent(p)].ents

NodeAt(p) == fs[Parent(p)].ents[p[Len(p)]]

\* The directory a path names once symbolic links are followed, as the
\* system resolves the argument of read_dir; <<0>> when there is none.
NoDir == << <<0>> >>

RECURSIVE RealDir(_, _)
RealDir(p, fuel) ==
    IF fuel = 0 THEN NoDir
    ELSE IF p = path THEN p
    ELSE IF ~IsKnown(p) THEN NoDir
    ELSE IF NodeAt(p).md = "dir" THEN p
    ELSE IF NodeAt(p).md = "symlink" THEN RealDir(LinkTarget(p), fuel - 1)
    ELSE NoDir

\* read_dir yields the entries in an order of the system's choosing; an item
\* of the iterator may also be an error.
RECURSIVE Perms(_)
Perms(S) ==
    IF S = {} THEN { << >> }
    ELSE UNION { { <<x>> \o s : s \in Perms(S \ {x}) } : x \in S }

ErrItem == [ok |-> FALSE, name |-> << >>]

Enumerations(ents) ==
    LET ps == { [i \in DOMAIN s |-> [ok |-> TRUE, name |-> s[i]]] : s \in Perms(DOMAIN ents) }
    IN  ps \cup { <<ErrItem>> \o s : s \in ps }

\* ------------------------------------------------------------ print_subtree
\* (variant: the metadata of the link's target, as fs::metadata reports it)
EntryMetadataFollow(p, node) ==
    IF node.md = "err" THEN <<FALSE, FALSE>>
    ELSE <<node.md = "dir" \/ (node.md = "symlink" /\ LinkTarget(p) = Parent(p)),
           node.md = "file" \/ node.md = "symlink">>

\* value.metadata() of the entry at p: (is_dir, is_file)
EntryMetadata(p, node) ==
    IF node.md = "err" THEN <<FALSE, FALSE>>
    ELSE <<node.md = "dir", node.md = "file" \/ node.md = "symlink">>

\* (variant: the show_files flag is not consulted)
RetainAll(is_dir, is_file, show_files) == is_dir \/ is_file

\* whether the collecting loop pushes the entry
Retain(is_dir, is_file, show_files) ==
    IF ~is_dir /\ ~is_file THEN FALSE
    ELSE is_dir \/ show_files

\* the collecting loop over dir_iter
RECURSIVE Collect(_, _, _, _)
Collect(dir, ents, enum, show_files) ==
    IF enum = << >> THEN << >>
    ELSE LET item == Head(enum)
             rest == Collect(dir, ents, Tail(enum), show_files)
         IN  IF ~item.ok THEN rest
             ELSE LET m == EntryMetadata(Append(dir, item.name), ents[item.name])
                  IN  IF Retain(m[1], m[2], show_files)
                      THEN <<[path |-> Append(dir, item.name), is_dir |-> m[1]]>> \o rest
                      ELSE rest

\* (variant: the entries stay in the order read_dir gave them)
SortEntriesNone(entries) == entries

\* entries.sort_unstable_by_key(|(entry, _)| entry.path())
RECURSIVE SortEntries(_)
SortEntries(entries) ==
    IF entries = << >> THEN << >>
    ELSE LET least == CHOOSE i \in DOMAIN entries :
                         \A j \in DOMAIN entries :
                             ~PathLess(entries[j].path, entries[i].path)
             others == [k \in 1..(Len(entries) - 1) |->
                           IF k < least THEN entries[k] ELSE entries[k + 1]]
         IN  <<entries[least]>> \o SortEntries(others)

\* (variant: off by one in the test for the last item)
NewPrefixOffByOne(prefix, i, entries_count) == Append(prefix, i = entries_count)

\* new_prefix: the prefix cloned, with "is the last item" pushed
NewPrefix(prefix, i, entries_count) == Append(prefix, i = entries_count - 1)

\* (variant: the two continuation glyphs exchanged)
GlyphSwapped(i, max_depth, last_entry, format_str) ==
    IF i = max_depth
    THEN (IF last_entry THEN format_str[1] ELSE format_str[2])
    ELSE (IF last_entry THEN format_str[4] ELSE format_str[3])

\* the glyph printed for position i of new_prefix
Glyph(i, max_depth, last_entry, format_str) ==
    IF i = max_depth
    THEN (IF last_entry THEN format_str[1] ELSE format_str[2])
    ELSE (IF last_entry THEN format_str[3] ELSE format_str[4])

\* the formatting loop over new_prefix (positions are 0-based in the code)
RECURSIVE RenderFrom(_, _, _)
RenderFrom(new_prefix, k, format_str) ==
    IF k > Len(new_prefix) THEN << >>
    ELSE Glyph(k - 1, Len(new_prefix) - 1, new_prefix[k], format_str)
           \o RenderFrom(new_prefix, k + 1, format_str)

RenderPrefix(new_prefix, format_str) == RenderFrom(new_prefix, 1, format_str)

\* a call print_subtree(path, show_files, prefix, format_str), about to read
Frame(p, show_files, prefix, format_str) ==
    [path |-> p, show_files |-> show_files, prefix |-> prefix,
     format_str |-> format_str, phase |-> "read", entries |-> << >>, i |-> 0]

\* (variant: the callee is queued and runs after the caller has finished)
CallDeferred(st, frame) == <<frame>> \o st

\* (variant: the caller's own prefix is pushed to, not a clone of it)
CallSharingPrefix(st, frame) ==
    IF st = << >> THEN <<frame>>
    ELSE Append([st EXCEPT ![Len(st)] = [@ EXCEPT !.prefix = frame.prefix]], frame)

\* the call is made synchronously: the callee runs before the caller resumes
Call(st, frame) == Append(st, frame)

Return(st) == SubSeq(st, 1, Len(st) - 1)

\* main() ends once the outermost print_subtree has returned
MainAfter(st) == IF st = << >> THEN "exited" ELSE "walk"

StatusAfter(st) == IF st = << >> THEN 0 ELSE -1

Top == stack[Len(stack)]

\* ----------------------------------------------------------------- actions
Init ==
    /\ args \in CommandLines
    /\ env \in [cwdOk : BOOLEAN, canonOk : BOOLEAN, metaOk : BOOLEAN, isDir : BOOLEAN]
    /\ (args.path # << >> => env.cwdOk)
    /\ pc = "getpath"
    /\ path = << >>
    /\ out = << >>
    /\ stderr = << >>
    /\ exit_status = -1
    /\ stack = << >>
    /\ fs = << >>
    /\ printed = << >>
    /\ reads = << >>

Fail(msg) ==
    /\ stderr' = Append(stderr, msg)
    /\ exit_status' = 1
    /\ pc' = "exited"

\* PathBuf::from(path_arg), for an argument of one component
PathFrom(path_arg) == <<path_arg>>

\* env::current_dir(): the working directory is "/"
CurrentDir == << >>

\* the search path: the positional argument or the current directory
GetPath ==
    /\ pc = "getpath"
    /\ IF args.path # << >>
       THEN /\ path' = PathFrom(args.path)
            /\ pc' = "canonicalize"
            /\ UNCHANGED <<stderr, exit_status>>
       ELSE IF env.cwdOk
            THEN /\ path' = CurrentDir
                 /\ pc' = "canonicalize"
                 /\ UNCHANGED <<stderr, exit_status>>
            ELSE /\ Fail("unable to get current directory")
                 /\ UNCHANGED path
    /\ UNCHANGED <<args, env, out, stack, fs, printed, reads>>

\* the absolute form of a path: a relative one is taken in the working directory
Canonical(p) == CurrentDir \o p

\* path.canonicalize()
Canonicalize ==
    /\ pc = "canonicalize"
    /\ IF env.canonOk
       THEN /\ path' = Canonical(path)
            /\ pc' = "metadata"
            /\ UNCHANGED <<stderr, exit_status>>
       ELSE /\ Fail("unable to canonicalize")
            /\ UNCHANGED path
    /\ UNCHANGED <<args, env, out, stack, fs, printed, reads>>

Metadata ==
    /\ pc = "metadata"
    /\ IF env.metaOk
       THEN /\ pc' = "dircheck"
            /\ UNCHANGED <<stderr, exit_status>>
       ELSE Fail("unable to get metadata")
    /\ UNCHANGED <<args, env, path, out, stack, fs, printed, reads>>

\* (variant: the directory sanity check is missing)
IsDirectoryAny(e) == TRUE

\* metadata.is_dir() of the root
IsDirectory(e) == e.isDir

DirCheck ==
    /\ pc = "dircheck"
    /\ IF IsDirectory(env)
       THEN /\ pc' = "printroot"
            /\ UNCHANGED <<stderr, exit_status>>
       ELSE Fail("is not a directory")
    /\ UNCHANGED <<args, env, path, out, stack, fs, printed, reads>>

\* the root's name with no prefix, then the first print_subtree call
PrintRoot ==
    /\ pc = "printroot"
    /\ out' = Append(out, DisplayName(path))
    /\ printed' = Append(printed, path)
    /\ stack' = Call(stack, Frame(path, args.files, << >>, FormatStr(args.ascii)))
    /\ pc' = "walk"
    /\ UNCHANGED <<args, env, path, stderr, exit_status, fs, reads>>

\* (variant: a failed read_dir is reported and ends the process)
ReadFailedFatal(st) ==
    [stack |-> st, stderr |-> Append(stderr, "unable to read directory"),
     exit_status |-> 1, pc |-> "exited"]

\* read_dir failed: print_subtree returns at once
ReadFailed(st) ==
    [stack |-> Return(st), stderr |-> stderr, exit_status |-> StatusAfter(Return(st)),
     pc |-> MainAfter(Return(st))]

\* read_dir, the collecting loop and the sort
ReadDir ==
    /\ pc = "walk"
    /\ Top.phase = "read"
    /\ reads' = Append(reads, [path |-> Top.path,
                                dir |-> RealDir(Top.path, MaxNodes + 2)])
    /\ LET real == RealDir(Top.path, MaxNodes + 2)
       IN  \E rec \in IF real \in DOMAIN fs THEN {fs[real]}
                      ELSE IF real = NoDir THEN {UnreadableDir}
                      ELSE {UnreadableDir}
                             \cup { [ok |-> TRUE, ents |-> l] :
                                      l \in Listings(MaxNodes - NodesKnown) } :
             /\ fs' = IF real = NoDir THEN fs
                      ELSE [d \in DOMAIN fs \cup {real} |->
                               IF d = real THEN rec ELSE fs[d]]
             /\ IF ~rec.ok
                THEN LET r == ReadFailed(stack)
                     IN  /\ stack' = r.stack
                         /\ stderr' = r.stderr
                         /\ exit_status' = r.exit_status
                         /\ pc' = r.pc
                ELSE \E enum \in Enumerations(rec.ents) :
                        /\ stack' = [stack EXCEPT ![Len(stack)] =
                               [@ EXCEPT !.phase = "loop",
                                         !.entries = SortEntries(
                                             Collect(Top.path, rec.ents, enum,
                                                     Top.show_files))]]
                        /\ UNCHANGED <<stderr, exit_status, pc>>
    /\ UNCHANGED <<args, env, path, out, printed>>

\* one iteration of the printing loop
PrintEntry ==
    /\ pc = "walk"
    /\ Top.phase = "loop"
    /\ Top.i < Len(Top.entries)
    /\ LET entry == Top.entries[Top.i + 1]
           new_prefix == NewPrefix(Top.prefix, Top.i, Len(Top.entries))
           resumed == [stack EXCEPT ![Len(stack)] = [@ EXCEPT !.i = @ + 1]]
       IN  /\ out' = Append(out, RenderPrefix(new_prefix, Top.format_str)
                                   \o DisplayName(entry.path))
           /\ printed' = Append(printed, entry.path)
           /\ stack' = IF entry.is_dir
                       THEN Call(resumed, Frame(entry.path, Top.show_files,
                                                new_prefix, Top.format_str))
                       ELSE resumed
    /\ UNCHANGED <<args, env, pc, path, stderr, exit_status, fs, reads>>

\* the printing loop is over: print_subtree returns
EndLoop ==
    /\ pc = "walk"
    /\ Top.phase = "loop"
    /\ Top.i = Len(Top.entries)
    /\ stack' = Return(stack)
    /\ pc' = MainAfter(Return(stack))
    /\ exit_status' = StatusAfter(Return(stack))
    /\ UNCHANGED <<args, env, path, out, stderr, fs, printed, reads>>

Next ==
    \/ GetPath
    \/ Canonicalize
    \/ Metadata
    \/ DirCheck
    \/ PrintRoot
    \/ ReadDir
    \/ PrintEntry
    \/ EndLoop

Spec == Init /\ [][Next]_vars

\* The program is one thread that runs to its end: a step that can be taken
\* is taken.
LiveSpec == Spec /\ WF_vars(Next)

TypeOK ==
    /\ pc \in {"getpath", "canonicalize", "metadata", "dircheck", "printroot",
               "walk", "exited"}
    /\ exit_status \in {-1, 0, 1}
    /\ NodesKnown <= MaxNodes

\* ------------------------------------------------- vocabulary of the claims
\* The four glyphs of the run.
Corner == FormatStr(args.ascii)[1]
Branch == FormatStr(args.ascii)[2]
Blank == FormatStr(args.ascii)[3]
Vertical == FormatStr(args.ascii)[4]
GlyphLen == Len(Corner)

\* The lines of entries: every line but the root's.
EntryLines == 2..Len(out)

\* p is q or an ancestor of q.
IsPrefix(p, q) == Len(p) <= Len(q) /\ SubSeq(q, 1, Len(p)) = p

\* Nesting depth of an entry: the number of its ancestors below the root.
Depth(p) == Len(p) - Len(path) - 1

\* What the file system says of a path: the metadata kind its parent's listing
\* holds for it.
KindOf(p) == IF IsKnown(p) THEN NodeAt(p).md ELSE "unknown"

DirLike(p) == KindOf(p) = "dir"
FileLike(p) == KindOf(p) \in {"file", "symlink"}

\* The directories read_dir read successfully, and those it failed on.
Visited == {d \in DOMAIN fs : fs[d].ok}
Unreadable == {d \in DOMAIN fs : ~fs[d].ok}

\* The entries of a visited directory that the flags let through.
Shown(p) == DirLike(p) \/ (args.files /\ FileLike(p))
RetainedIn(d) == {Append(d, n) : n \in {m \in DOMAIN fs[d].ents : Shown(Append(d, m))}}

\* p is the last of the retained entries of its directory, by name.
IsLastRetained(p) ==
    \A q \in RetainedIn(Parent(p)) : ~BytesLess(p[Len(p)], q[Len(q)])

\* Column c (from 0) of a printed line.
Column(line, c) == SubSeq(line, c * GlyphLen + 1, (c + 1) * GlyphLen)

LinesFor(p) == {k \in EntryLines : printed[k] = p}

AllChecksPass ==
    /\ (args.path = << >> => env.cwdOk)
    /\ env.canonOk
    /\ env.metaOk
    /\ env.isDir

\* ---------------------------------------------------------------- C1
\* C1: every entry line at nesting depth d is d+1 glyphs followed by the
\* entry's name; the last glyph is corner if the entry is the last retained
\* sibling of its directory and branch otherwise; the glyph in column p < d is
\* blank if the ancestor at level p was the last retained sibling of its own
\* directory and vertical otherwise.
C1_ConnectorCorrectness ==
    \A k \in EntryLines :
        LET p == printed[k]
            d == Depth(p)
            name == p[Len(p)]
        IN  /\ Len(out[k]) = (d + 1) * GlyphLen + Len(name)
            /\ SubSeq(out[k], (d + 1) * GlyphLen + 1, Len(out[k])) = name
            /\ Column(out[k], d) = IF IsLastRetained(p) THEN Corner ELSE Branch
            /\ \A c \in 0..(d - 1) :
                  Column(out[k], c) =
                      IF IsLastRetained(SubSeq(p, 1, Len(path) + c + 1))
                      THEN Blank ELSE Vertical

\* a last entry one level down, below a directory that was not the last
C1_Witness ==
    \E k \in EntryLines :
        /\ Depth(printed[k]) = 1
        /\ ~IsLastRetained(Parent(printed[k]))
        /\ IsLastRetained(printed[k])

\* ---------------------------------------------------------------- C2
\* C2: the entries of every listed directory are printed in strictly ascending
\* order of their full path strings (equally of their names), directories and
\* files interleaved, and whatever the order read_dir enumerated them in: the
\* sorted entries are exactly the retained entries of the directory.
C2_SiblingOrdering ==
    /\ \A f \in 1..Len(stack) :
          stack[f].phase = "loop" /\ stack[f].path \in Visited =>
              LET es == stack[f].entries
              IN  /\ {es[j].path : j \in DOMAIN es} = RetainedIn(stack[f].path)
                  /\ \A j \in 1..(Len(es) - 1) :
                        /\ BytesLess(PathString(es[j].path), PathString(es[j + 1].path))
                        /\ BytesLess(DisplayName(es[j].path), DisplayName(es[j + 1].path))
    /\ \A j, k \in EntryLines :
          j < k /\ Parent(printed[j]) = Parent(printed[k]) =>
              BytesLess(PathString(printed[j]), PathString(printed[k]))

\* a file printed between two directories of the same directory
C2_Witness ==
    \E i, j, k \in EntryLines :
        /\ i < j /\ j < k
        /\ Parent(printed[i]) = Parent(printed[j])
        /\ Parent(printed[j]) = Parent(printed[k])
        /\ DirLike(printed[i]) /\ FileLike(printed[j]) /\ DirLike(printed[k])

\* ---------------------------------------------------------------- C3
\* C3: without --files every printed entry is a directory; with --files every
\* directory-like or file-like entry of every visited directory is printed
\* exactly once; an entry whose metadata query fails or that is neither
\* directory-like nor file-like is never printed.
C3_FilteringLaw ==
    /\ \A k \in EntryLines :
          /\ ~args.files => DirLike(printed[k])
          /\ DirLike(printed[k]) \/ FileLike(printed[k])
          /\ Cardinality(LinesFor(printed[k])) = 1
    /\ pc = "exited" /\ exit_status = 0 =>
          \A d \in Visited : \A n \in DOMAIN fs[d].ents :
              Cardinality(LinesFor(Append(d, n))) =
                  IF Shown(Append(d, n)) THEN 1 ELSE 0

\* a finished run with --files off that met a file, and one more entry whose
\* metadata could not be read or that was of another type
C3_Witness ==
    /\ pc = "exited" /\ exit_status = 0 /\ ~args.files
    /\ \E d \in Visited : \E m, n \in DOMAIN fs[d].ents :
          /\ fs[d].ents[m].md \in {"file", "symlink"}
          /\ fs[d].ents[n].md \in {"err", "other"}
    /\ Len(out) >= 2

\* ---------------------------------------------------------------- C4
\* C4: when read_dir fails on a subdirectory S, the line of S is already
\* printed, no line is printed for anything below S, nothing is reported, and
\* the run ends with status 0 and with the output it would have had were S
\* empty.
SortedNames(S) ==
    LET RECURSIVE Asc(_)
        Asc(T) == IF T = {} THEN << >>
                  ELSE LET n == CHOOSE x \in T : \A y \in T : ~BytesLess(y, x)
                       IN  <<n>> \o Asc(T \ {n})
    IN  Asc(S)

Columns(history) ==
    LET RECURSIVE Cols(_)
        Cols(k) == IF k > Len(history) THEN << >>
                   ELSE (IF k = Len(history)
                         THEN (IF history[k] THEN Corner ELSE Branch)
                         ELSE (IF history[k] THEN Blank ELSE Vertical)) \o Cols(k + 1)
    IN  Cols(1)

\* The listing of a tree F whose directories are all readable.
RECURSIVE Listing(_, _, _, _, _)
Listing(F, d, history, names, k) ==
    IF k > Len(names) THEN << >>
    ELSE LET p == Append(d, names[k])
             h == Append(history, k = Len(names))
             below == IF F[d].ents[names[k]].md = "dir"
                      THEN Listing(F, p, h,
                                   SortedNames({n \in DOMAIN F[p].ents :
                                       \/ F[p].ents[n].md = "dir"
                                       \/ args.files /\ F[p].ents[n].md \in {"file", "symlink"}}),
                                   1)
                      ELSE << >>
         IN  <<Columns(h) \o names[k]>> \o below \o Listing(F, d, history, names, k + 1)

AsIfEmpty(F) ==
    [d \in DOMAIN F |-> IF F[d].ok THEN F[d] ELSE [ok |-> TRUE, ents |-> << >>]]

ListingOfRoot(F) ==
    Listing(F, path, << >>,
            SortedNames({n \in DOMAIN F[path].ents :
                \/ F[path].ents[n].md = "dir"
                \/ args.files /\ F[path].ents[n].md \in {"file", "symlink"}}),
            1)

C4_UnreadableTolerance ==
    Unreadable \ {path} # {} =>
        /\ \A S \in Unreadable \ {path} :
              /\ LinesFor(S) # {}
              /\ \A k \in EntryLines : IsPrefix(S, printed[k]) => printed[k] = S
        /\ stderr = << >>
        /\ exit_status # 1
        /\ pc = "exited" =>
              /\ exit_status = 0
              /\ out = <<DisplayName(path)>> \o ListingOfRoot(AsIfEmpty(fs))

\* a finished run in which an unreadable subdirectory had a later sibling
C4_Witness ==
    /\ pc = "exited"
    /\ \E S \in Unreadable \ {path} : \E k \in EntryLines :
          /\ Parent(printed[k]) = Parent(S)
          /\ \E j \in LinesFor(S) : j < k

\* ---------------------------------------------------------------- C5
\* C5: when the current directory cannot be obtained, or the path cannot be
\* canonicalized, or its metadata cannot be read, or it is not a directory,
\* the process reports the first of these failures and exits with status 1
\* without printing the root or calling print_subtree; when all four checks
\* pass it prints the root name and exits with status 0.
FirstFailure ==
    IF args.path = << >> /\ ~env.cwdOk THEN "unable to get current directory"
    ELSE IF ~env.canonOk THEN "unable to canonicalize"
    ELSE IF ~env.metaOk THEN "unable to get metadata"
    ELSE "is not a directory"

C5_RootFailuresFatal ==
    /\ (out # << >> \/ stack # << >> \/ reads # << >>) => AllChecksPass
    /\ exit_status = 1 =>
          /\ ~AllChecksPass
          /\ stderr = <<FirstFailure>>
          /\ out = << >> /\ reads = << >>
    /\ pc = "exited" =>
          /\ exit_status = IF AllChecksPass THEN 0 ELSE 1
          /\ AllChecksPass => /\ Len(out) >= 1
                              /\ out[1] = DisplayName(path)
                              /\ stderr = << >>
    /\ pc # "exited" => exit_status = -1 /\ stderr = << >>

\* the path cannot be canonicalized and its metadata could not be read either
C5_Witness ==
    /\ exit_status = 1
    /\ ~env.canonOk /\ ~env.metaOk /\ ~env.isDir

\* ---------------------------------------------------------------- C6
\* C6: for a root R holding directory a (which holds directory x) and
\* directory z, a run with default flags prints R, branch a, vertical corner
\* x, corner z, in this order; the root line is printed once, first and with
\* no prefix, and print_subtree never prints the directory it is called on.
ScenarioTree ==
    /\ path = << <<82>> >>
    /\ DOMAIN fs = {path, Append(path, <<97>>), Append(path, <<122>>),
                    <<path[1], <<97>>, <<120>> >>}
    /\ fs[path].ok /\ DOMAIN fs[path].ents = {<<97>>, <<122>>}
    /\ fs[path].ents[<<97>>].md = "dir" /\ fs[path].ents[<<122>>].md = "dir"
    /\ fs[Append(path, <<97>>)].ok
    /\ DOMAIN fs[Append(path, <<97>>)].ents = { <<120>> }
    /\ fs[Append(path, <<97>>)].ents[<<120>>].md = "dir"
    /\ DOMAIN fs[Append(path, <<122>>)].ents = {}
    /\ DOMAIN fs[<<path[1], <<97>>, <<120>> >>].ents = {}

C6_ConcreteScenario ==
    /\ out # << >> =>
          /\ out[1] = DisplayName(path) /\ printed[1] = path
          /\ \A k \in EntryLines : printed[k] # path /\ IsPrefix(path, printed[k])
          /\ \A f \in 2..Len(stack) :
                /\ Cardinality(LinesFor(stack[f].path)) = 1
                /\ stack[f].phase = "read" =>
                      \A k \in EntryLines : ~IsPrefix(stack[f].path, printed[k])
                                                \/ printed[k] = stack[f].path
    /\ (pc = "exited" /\ ~args.files /\ ~args.ascii /\ ScenarioTree) =>
          out = << <<82>>,
                   <<9500, 9472, 9472, 9472, 97>>,
                   <<9474, 32, 32, 32, 9492, 9472, 9472, 9472, 120>>,
                   <<9492, 9472, 9472, 9472, 122>> >>

C6_Witness == pc = "exited" /\ ~args.files /\ ~args.ascii /\ ScenarioTree

\* ---------------------------------------------------------------- C7
\* C7: a symbolic link is file-like whatever it points to: print_subtree is
\* never called on it and nothing is printed below it; it has one line when
\* --files is given and none otherwise.  print_subtree is called only on
\* entries whose own metadata reports a directory.
C7_SymlinksAreLeaves ==
    /\ \A f \in 2..Len(stack) : DirLike(stack[f].path)
    /\ \A r \in 2..Len(reads) : DirLike(reads[r].path) /\ reads[r].dir = reads[r].path
    /\ \A k \in EntryLines :
          /\ KindOf(printed[k]) = "symlink" => args.files
          /\ Depth(printed[k]) > 0 => DirLike(Parent(printed[k]))
    /\ pc = "exited" /\ exit_status = 0 =>
          \A d \in Visited : \A n \in DOMAIN fs[d].ents :
              fs[d].ents[n].md = "symlink" =>
                  Cardinality(LinesFor(Append(d, n))) = IF args.files THEN 1 ELSE 0

\* a finished run with --files that met, one level down, a link to the
\* directory holding it
C7_Witness ==
    /\ pc = "exited" /\ exit_status = 0 /\ args.files
    /\ \E k \in EntryLines :
          /\ Depth(printed[k]) = 1
          /\ KindOf(printed[k]) = "symlink"
          /\ LinkTarget(printed[k]) = Parent(printed[k])

\* ---------------------------------------------------------------- C8
\* C8: the line of a directory is followed at once by the lines of all its
\* printed descendants, in one block; a parent's line precedes its children's
\* and no line of another subtree falls inside the block.
C8_PreorderContiguity ==
    /\ \A i, j \in EntryLines :
          i < j /\ IsPrefix(printed[i], printed[j]) =>
              \A m \in i..j : IsPrefix(printed[i], printed[m])
    /\ \A j \in EntryLines :
          Depth(printed[j]) > 0 =>
              \E i \in EntryLines : i < j /\ printed[i] = Parent(printed[j])
    /\ \A i, j \in EntryLines :
          i < j /\ Parent(printed[i]) = Parent(printed[j]) =>
              \A m \in j..Len(out) : ~IsPrefix(printed[i], printed[m])

\* a directory with a printed child, followed by a later sibling
C8_Witness ==
    \E i, j, k \in EntryLines :
        /\ i < j /\ j < k
        /\ Parent(printed[j]) = printed[i]
        /\ Parent(printed[k]) = Parent(printed[i])

\* ---------------------------------------------------------------- C9
\* C9: every print_subtree call receives its caller's prefix with exactly one
\* boolean appended, so the prefix is as long as the listed directory is deep
\* (empty at the root); a call leaves its caller's prefix unchanged, and the
\* siblings printed after a call returns have the ancestor columns of those
\* printed before it.
C9_Chain ==
    /\ \A f \in 1..Len(stack) :
          /\ Len(stack[f].prefix) = Len(stack[f].path) - Len(path)
          /\ f = 1 => stack[f].prefix = << >> /\ stack[f].path = path
          /\ f > 1 => /\ Parent(stack[f].path) = stack[f - 1].path
                      /\ SubSeq(stack[f].prefix, 1, Len(stack[f].prefix) - 1)
                            = stack[f - 1].prefix
    /\ \A j, k \in EntryLines :
          Parent(printed[j]) = Parent(printed[k]) =>
              /\ Len(out[j]) - Len(DisplayName(printed[j]))
                    = Len(out[k]) - Len(DisplayName(printed[k]))
              /\ SubSeq(out[j], 1, Depth(printed[j]) * GlyphLen)
                    = SubSeq(out[k], 1, Depth(printed[k]) * GlyphLen)

C9_CallerUnchanged ==
    \A f \in 1..Len(stack) :
        f <= Len(stack') =>
            /\ stack'[f].prefix = stack[f].prefix
            /\ stack'[f].path = stack[f].path
            /\ stack'[f].show_files = stack[f].show_files
            /\ stack'[f].format_str = stack[f].format_str

C9_DepthPrefixFraming == []C9_Chain /\ [][C9_CallerUnchanged]_vars

\* a call two levels down, for the last entry of a directory that was not
\* the last, while the root still has an entry to print
C9_Witness ==
    /\ Len(stack) = 3
    /\ stack[3].prefix = <<FALSE, TRUE>>
    /\ stack[1].i < Len(stack[1].entries)

\* ---------------------------------------------------------------- C10
\* C10: the walk ends, also when the tree holds symbolic links to an ancestor
\* or to each other and when a directory is empty after filtering; no
\* directory is listed twice and at most one line per entry of the tree is
\* printed besides the root's.
C10_Bounds ==
    /\ \A i, j \in 1..Len(reads) : i < j => reads[i].dir # reads[j].dir
    /\ Len(out) <= 1 + NodesKnown
    /\ \A f \in 1..Len(stack) : stack[f].i <= Len(stack[f].entries)
    /\ \A d \in Visited :
          RetainedIn(d) = {} => \A k \in EntryLines : Parent(printed[k]) # d

C10_Termination == <>(pc = "exited") /\ []C10_Bounds

\* a finished walk with --files off of a directory that holds only a link to
\* the directory itself and two links to each other
C10_Witness ==
    /\ pc = "exited" /\ exit_status = 0
    /\ \E d \in Visited :
          /\ DOMAIN fs[d].ents = Names
          /\ \A n \in Names : fs[d].ents[n].md = "symlink"
          /\ RetainedIn(d) = {}
          /\ Len(out) = 1
====
